---- MODULE Spec2Model ----
(***************************************************************************)
(* A model of src-tauri/src/main.rs of tver-dl: the configuration store    *)
(* (load_config, save_config) over the file config.json, and the download  *)
(* orchestrator (download_episodes) supervising the python worker.         *)
(*                                                                         *)
(* JSON text is modelled as a sequence of tokens <<kind, text>>; white     *)
(* space and commas of the pretty printer carry no information and are     *)
(* left out.  An Option<String> is <<>> (None) or <<s>> (Some(s)).          *)
(***************************************************************************)
EXTENDS Integers, Sequences, FiniteSets, TLC

\* ------------------------------------------------------------------ bounds
MaxSeries == 2      \* longest series list of a configuration drawn as input
MaxCalls  == 2      \* load_config / save_config invocations in one behaviour
NumTasks  == 2      \* commands the runtime runs concurrently
MaxOps    == 3      \* writes a worker script performs before it exits
PipeCap   == 2      \* units an OS pipe buffers before a write blocks

Tasks == 1..NumTasks

\* ------------------------------------------------------------- JSON tokens
LBrace == <<"punct", "{">>
RBrace == <<"punct", "}">>
LBrack == <<"punct", "[">>
RBrack == <<"punct", "]">>
Null   == <<"null", "null">>
Nul    == <<"nul", "0">>          \* a zero byte of a hole in a file
Key(k) == <<"key", k>>
Str(s) == <<"str", s>>
Bool(b) == <<"bool", IF b THEN "true" ELSE "false">>

\* ------------------------------------------------ serde_json::to_string_pretty
RECURSIVE SerStrItems(_)
SerStrItems(l) ==
    IF l = <<>> THEN <<>> ELSE <<Str(Head(l))>> \o SerStrItems(Tail(l))

SerStrList(l) == <<LBrack>> \o SerStrItems(l) \o <<RBrack>>

\* None written as an empty string instead of null.
SerOptStr_NoneAsEmpty(o) == IF o = <<>> THEN <<Str("")>> ELSE <<Str(o[1])>>

SerOptStr(o) == IF o = <<>> THEN <<Null>> ELSE <<Str(o[1])>>

SerSeries(s) ==
    <<LBrace, Key("name"), Str(s.name), Key("url"), Str(s.url),
      Key("enabled"), Bool(s.enabled), Key("include_patterns")>>
    \o SerStrList(s.include_patterns)
    \o <<Key("exclude_patterns")>> \o SerStrList(s.exclude_patterns)
    \o <<Key("thumbnail_url")>> \o SerOptStr(s.thumbnail_url)
    \o <<RBrace>>

RECURSIVE SerSeriesItems(_)
SerSeriesItems(l) ==
    IF l = <<>> THEN <<>> ELSE SerSeries(Head(l)) \o SerSeriesItems(Tail(l))

to_string_pretty(c) ==
    <<LBrace, Key("series"), LBrack>> \o SerSeriesItems(c.series)
    \o <<RBrack, Key("download_path"), Str(c.download_path),
         Key("archive_file"), Str(c.archive_file),
         Key("debug"), Bool(c.debug), Key("yt_dlp_options")>>
    \o SerStrList(c.yt_dlp_options)
    \o <<RBrace>>

\* ------------------------------------------------------ serde_json::from_str
\* A parse step yields [ok, val, rest]; a failed step leaves no input, so the
\* steps after it fail too.
PFail == [ok |-> FALSE, val |-> <<>>, rest |-> <<>>]
POk(v, r) == [ok |-> TRUE, val |-> v, rest |-> r]

AfterTok(toks, tok) ==
    IF toks # <<>> /\ Head(toks) = tok THEN Tail(toks) ELSE <<>>

StartsWith(toks, tok) == toks # <<>> /\ Head(toks) = tok

ParseStr(toks) ==
    IF toks # <<>> /\ Head(toks)[1] = "str"
    THEN POk(Head(toks)[2], Tail(toks)) ELSE PFail

ParseBool(toks) ==
    IF toks # <<>> /\ Head(toks)[1] = "bool"
    THEN POk(Head(toks)[2] = "true", Tail(toks)) ELSE PFail

ParseOptStr(toks) ==
    IF StartsWith(toks, Null) THEN POk(<<>>, Tail(toks))
    ELSE IF toks # <<>> /\ Head(toks)[1] = "str"
         THEN POk(<<Head(toks)[2]>>, Tail(toks)) ELSE PFail

RECURSIVE ParseStrItems(_, _)
ParseStrItems(toks, acc) ==
    IF toks = <<>> THEN PFail
    ELSE IF Head(toks) = RBrack THEN POk(acc, Tail(toks))
    ELSE IF Head(toks)[1] = "str"
         THEN ParseStrItems(Tail(toks), Append(acc, Head(toks)[2]))
         ELSE PFail

ParseStrList(toks) ==
    IF StartsWith(toks, LBrack) THEN ParseStrItems(Tail(toks), <<>>) ELSE PFail

ParseSeries(toks) ==
    LET n  == ParseStr(AfterTok(AfterTok(toks, LBrace), Key("name")))
        u  == ParseStr(AfterTok(n.rest, Key("url")))
        e  == ParseBool(AfterTok(u.rest, Key("enabled")))
        i  == ParseStrList(AfterTok(e.rest, Key("include_patterns")))
        x  == ParseStrList(AfterTok(i.rest, Key("exclude_patterns")))
        th == ParseOptStr(AfterTok(x.rest, Key("thumbnail_url")))
    IN  IF th.ok /\ StartsWith(th.rest, RBrace)
        THEN POk([name |-> n.val, url |-> u.val, enabled |-> e.val,
                  include_patterns |-> i.val, exclude_patterns |-> x.val,
                  thumbnail_url |-> th.val], Tail(th.rest))
        ELSE PFail

RECURSIVE ParseSeriesItems(_, _)
ParseSeriesItems(toks, acc) ==
    IF toks = <<>> THEN PFail
    ELSE IF Head(toks) = RBrack THEN POk(acc, Tail(toks))
    ELSE LET s == ParseSeries(toks)
         IN  IF s.ok THEN ParseSeriesItems(s.rest, Append(acc, s.val))
             ELSE PFail

ParseSeriesList(toks) ==
    IF StartsWith(toks, LBrack) THEN ParseSeriesItems(Tail(toks), <<>>)
    ELSE PFail

\* Ok only when the whole input is one Config document (trailing input is an
\* error, as in serde_json).
from_str(toks) ==
    LET s == ParseSeriesList(AfterTok(AfterTok(toks, LBrace), Key("series")))
        d == ParseStr(AfterTok(s.rest, Key("download_path")))
        a == ParseStr(AfterTok(d.rest, Key("archive_file")))
        g == ParseBool(AfterTok(a.rest, Key("debug")))
        o == ParseStrList(AfterTok(g.rest, Key("yt_dlp_options")))
    IN  IF o.ok /\ o.rest = <<RBrace>>
        THEN POk([series |-> s.val, download_path |-> d.val,
                  archive_file |-> a.val, debug |-> g.val,
                  yt_dlp_options |-> o.val], <<>>)
        ELSE PFail

\* ------------------------------------------------------------ configurations
NoConfig == [none |-> TRUE]

\* app_dir.join("downloads").to_string_lossy(), app_dir being "appdir"
DefaultDownloadPath == "appdir/downloads"

default_config ==
    [series |-> <<>>,
     download_path |-> DefaultDownloadPath,
     archive_file |-> "downloaded.txt",
     debug |-> FALSE,
     yt_dlp_options |-> <<"-o", "%(series)s/%(title)s.%(ext)s",
                          "--write-sub", "--sub-lang", "ja">>]

\* Inputs: series entries that differ in name, pattern order and thumbnail
\* (absent, empty, set); lists of them with repetition, in either order.
SeriesEntry(n, th) ==
    [name |-> n, url |-> IF n = "a" THEN "u/a" ELSE "u/b",
     enabled |-> (n = "a"),
     include_patterns |-> IF n = "a" THEN <<"x", "y">> ELSE <<"y", "x">>,
     exclude_patterns |-> IF n = "a" THEN <<>> ELSE <<"x">>,
     thumbnail_url |-> th]

SeriesDomain ==
    { SeriesEntry("a", <<>>), SeriesEntry("a", <<"">>),
      SeriesEntry("b", <<>>), SeriesEntry("b", <<"t">>) }

RECURSIVE SeqsUpTo(_, _)
SeqsUpTo(S, n) ==
    IF n = 0 THEN {<<>>}
    ELSE LET shorter == SeqsUpTo(S, n - 1)
         IN  shorter \cup { Append(q, x) : q \in shorter, x \in S }

ConfigDomain ==
    { [series |-> s, download_path |-> p, archive_file |-> "arch.txt",
       debug |-> d, yt_dlp_options |-> o] :
      s \in SeqsUpTo(SeriesDomain, MaxSeries), p \in {"/dl"},
      d \in BOOLEAN, o \in {<<"-o", "ja">>, <<"ja", "-o">>} }

\* Two distinct configurations the concurrent commands are called with.
CfgA == [default_config EXCEPT !.download_path = "/a", !.debug = TRUE]
CfgB == [default_config EXCEPT !.download_path = "/b",
                               !.yt_dlp_options = <<"-o">>]

\* Files a run may find in place: written by an earlier run, cut short, or
\* not a Config document at all.
InitialFiles ==
    { to_string_pretty(CfgA), <<>>, <<LBrace, Key("series"), LBrack>> }

\* -------------------------------------------------------------------- state
VARIABLES
    appDataDir,   \* path_resolver().app_data_dir() is Some
    fsWritable,   \* entries can be created under the application directory
    dirExists,    \* the application directory exists
    fileExists,   \* config.json exists
    fileAccess,   \* config.json may be opened by this user
    fileContent,  \* its content, a token sequence
    cfgPool,      \* configurations the front end passes as arguments
    awaits,       \* the front end awaits a command before the next call
    pc,           \* per task: where its command stands
    arg,          \* per task: the config argument of save_config
    buf,          \* per task: config_json, the text being written
    off,          \* per task: file offset of the open file
    prev,         \* per task: the file content when fs::write opened it
    ret,          \* per task: the result of its last command
    calls,        \* commands invoked so far
    log           \* completed commands, in order of completion

storeVars == <<appDataDir, fsWritable, dirExists, fileExists, fileAccess,
               fileContent, cfgPool, awaits, pc, arg, buf, off, prev, ret,
               calls, log>>

VARIABLES
    dl_pc,        \* where download_episodes stands
    dl_arg,       \* its config argument
    dl_ret,       \* its result
    emitted,      \* the "download-progress" notifications, in order
    cur,          \* bytes of the line read_line is assembling
    status,       \* what child.wait() returned
    wk,           \* the worker process: none, failed (to start), running,
                  \* exited, killed
    wk_next,      \* the operation the worker performs next
    wk_count,     \* writes the worker has performed
    wk_code,      \* its exit code
    wk_cfg,       \* what the file at --config held when it was spawned
    wk_written,   \* every byte it wrote to standard output (history)
    wk_errs,      \* every chunk it wrote to standard error (history)
    outPipe,      \* the standard-output pipe
    outClosed,    \* the worker's end of it is closed
    errPipe,      \* the standard-error pipe, which nobody reads
    dl_phases,    \* the phases the invocation went through (history)
    emittedAtEnd  \* the number of notifications when it returned (history)

dlVars == <<dl_pc, dl_arg, dl_ret, emitted, cur, status, wk, wk_next,
            wk_count, wk_code, wk_cfg, wk_written, wk_errs, outPipe,
            outClosed, errPipe, dl_phases, emittedAtEnd>>

VARIABLES
    vpn_pc,       \* where check_vpn stands
    vpn_i,        \* index of the service the loop is at
    vpn_ret,      \* its result
    vpn_asked     \* the services queried and what each answered (history)

vpnVars == <<vpn_pc, vpn_i, vpn_ret, vpn_asked>>

VARIABLES
    fe_pc,        \* where fetch_episodes stands
    fe_url,       \* its series_url argument
    fe_run,       \* what Command::output() returned (history)
    fe_ret        \* its result

feVars == <<fe_pc, fe_url, fe_run, fe_ret>>

\* Result<_, String>
Ok(v)  == [ok |-> TRUE, val |-> v, err |-> ""]
Err(e) == [ok |-> FALSE, val |-> NoConfig, err |-> e]
NoRet  == [ok |-> FALSE, val |-> NoConfig, err |-> "-"]

Max(a, b) == IF a > b THEN a ELSE b

\* pwrite of data at offset o: a gap before o reads as zero bytes.
WriteAt(content, o, data) ==
    LET end == o + Len(data)
    IN  [i \in 1..Max(Len(content), end) |->
            IF i > o /\ i <= end THEN data[i - o]
            ELSE IF i <= Len(content) THEN content[i] ELSE Nul]

\* One write(2) of write_all's loop takes all that is left, or half of it.
WriteSizes(rem) == {rem} \cup (IF rem > 1 THEN {rem \div 2} ELSE {})

\* OpenOptions: write, create, truncate.
CanOpenForWrite ==
    dirExists /\ (IF fileExists THEN fileAccess ELSE fsWritable)

Return(t, op, branch, r) ==
    /\ pc' = [pc EXCEPT ![t] = "idle"]
    /\ ret' = [ret EXCEPT ![t] = r]
    /\ log' = Append(log, [task |-> t, op |-> op, branch |-> branch,
                           arg |-> arg[t], ret |-> r])

fsUnchanged == UNCHANGED <<appDataDir, fsWritable, dirExists, fileExists,
                           fileAccess, fileContent>>

\* The front end may call a command on task t now.
NoCommandRunning ==
    /\ \A t \in Tasks : pc[t] = "idle"
    /\ dl_pc = "idle"

CanInvoke(t) == awaits => (t = 1 /\ NoCommandRunning)

\* ------------------------------------------------------------- load_config
LoadInvoke(t) ==
    /\ pc[t] = "idle" /\ calls < MaxCalls
    /\ CanInvoke(t)
    /\ calls' = calls + 1
    /\ arg' = [arg EXCEPT ![t] = NoConfig]
    /\ IF appDataDir
       THEN /\ pc' = [pc EXCEPT ![t] = "load_exists"]
            /\ UNCHANGED <<ret, log>>
       ELSE /\ pc' = [pc EXCEPT ![t] = "idle"]
            /\ ret' = [ret EXCEPT ![t] = Err("Could not get app data directory")]
            /\ log' = Append(log, [task |-> t, op |-> "load", branch |-> "-",
                                   arg |-> NoConfig, ret |-> ret'[t]])
    /\ fsUnchanged
    /\ UNCHANGED <<cfgPool, awaits, buf, off, prev>>
    /\ UNCHANGED <<dlVars, vpnVars, feVars>>

\* The default is created whether or not the file exists.
LoadExists_AlwaysCreates(t) ==
    /\ pc[t] = "load_exists"
    /\ pc' = [pc EXCEPT ![t] = "load_mkdir"]
    /\ fsUnchanged
    /\ UNCHANGED <<cfgPool, awaits, arg, buf, off, prev, ret, calls, log>>
    /\ UNCHANGED <<dlVars, vpnVars, feVars>>

\* if !config_path.exists()
LoadExists(t) ==
    /\ pc[t] = "load_exists"
    /\ pc' = [pc EXCEPT ![t] = IF fileExists THEN "load_read" ELSE "load_mkdir"]
    /\ fsUnchanged
    /\ UNCHANGED <<cfgPool, awaits, arg, buf, off, prev, ret, calls, log>>
    /\ UNCHANGED <<dlVars, vpnVars, feVars>>

\* create_dir_all(&app_dir)?, then to_string_pretty(&default_config)?
LoadMkdir(t) ==
    /\ pc[t] = "load_mkdir"
    /\ IF dirExists \/ fsWritable
       THEN /\ dirExists' = TRUE
            /\ pc' = [pc EXCEPT ![t] = "load_open"]
            /\ buf' = [buf EXCEPT ![t] = to_string_pretty(default_config)]
            /\ UNCHANGED <<ret, log>>
       ELSE /\ Return(t, "load", "default", Err("io"))
            /\ UNCHANGED <<dirExists, buf>>
    /\ UNCHANGED <<appDataDir, fsWritable, fileExists, fileAccess, fileContent,
                   cfgPool, awaits, arg, off, prev, calls>>
    /\ UNCHANGED <<dlVars, vpnVars, feVars>>

\* std::fs::write, its open: the file is created or cut to length 0.
FsOpen(t, op, branch, next) ==
    /\ IF CanOpenForWrite
       THEN /\ fileExists' = TRUE
            /\ fileAccess' = TRUE
            /\ fileContent' = <<>>
            /\ prev' = [prev EXCEPT ![t] =
                          IF fileExists THEN fileContent ELSE <<>>]
            /\ off' = [off EXCEPT ![t] = 0]
            /\ pc' = [pc EXCEPT ![t] = next]
            /\ UNCHANGED <<ret, log>>
       ELSE /\ Return(t, op, branch, Err("io"))
            /\ UNCHANGED <<fileExists, fileAccess, fileContent, prev, off>>
    /\ UNCHANGED <<appDataDir, fsWritable, dirExists, cfgPool, awaits, arg,
                   buf, calls>>

\* std::fs::write, one write of its write_all; the command returns after the
\* last one.
FsWrite(t, op, branch, r) ==
    \E n \in WriteSizes(Len(buf[t]) - off[t]) :
        /\ fileContent' = WriteAt(fileContent, off[t],
                                  SubSeq(buf[t], off[t] + 1, off[t] + n))
        /\ off' = [off EXCEPT ![t] = off[t] + n]
        /\ IF off[t] + n = Len(buf[t])
           THEN Return(t, op, branch, r)
           ELSE UNCHANGED <<pc, ret, log>>
        /\ UNCHANGED <<appDataDir, fsWritable, dirExists, fileExists,
                       fileAccess, cfgPool, awaits, arg, buf, prev, calls>>

LoadOpen(t) ==
    /\ pc[t] = "load_open"
    /\ FsOpen(t, "load", "default", "load_write")
    /\ UNCHANGED <<dlVars, vpnVars, feVars>>

LoadWrite(t) ==
    /\ pc[t] = "load_write"
    /\ FsWrite(t, "load", "default", Ok(default_config))
    /\ UNCHANGED <<dlVars, vpnVars, feVars>>

\* A file that cannot be read or parsed answered with the default.
LoadRead_FallsBack(t) ==
    /\ pc[t] = "load_read"
    /\ LET p == from_str(fileContent)
       IN  Return(t, "load", "read",
                  IF fileAccess /\ p.ok THEN Ok(p.val) ELSE Ok(default_config))
    /\ fsUnchanged
    /\ UNCHANGED <<cfgPool, awaits, arg, buf, off, prev, calls>>
    /\ UNCHANGED <<dlVars, vpnVars, feVars>>

\* read_to_string(&config_path)?, then from_str(&config_str)?
LoadRead(t) ==
    /\ pc[t] = "load_read"
    /\ LET p == from_str(fileContent)
       IN  Return(t, "load", "read",
                  IF ~fileAccess THEN Err("io")
                  ELSE IF p.ok THEN Ok(p.val) ELSE Err("parse"))
    /\ fsUnchanged
    /\ UNCHANGED <<cfgPool, awaits, arg, buf, off, prev, calls>>
    /\ UNCHANGED <<dlVars, vpnVars, feVars>>

\* ------------------------------------------------------------- save_config
SaveInvoke(t) ==
    /\ pc[t] = "idle" /\ calls < MaxCalls
    /\ CanInvoke(t)
    /\ calls' = calls + 1
    /\ \E c \in cfgPool :
         /\ arg' = [arg EXCEPT ![t] = c]
         /\ IF appDataDir
            THEN /\ pc' = [pc EXCEPT ![t] = "save_open"]
                 /\ buf' = [buf EXCEPT ![t] = to_string_pretty(c)]
                 /\ UNCHANGED <<ret, log>>
            ELSE /\ pc' = [pc EXCEPT ![t] = "idle"]
                 /\ ret' = [ret EXCEPT ![t] =
                              Err("Could not get app data directory")]
                 /\ log' = Append(log, [task |-> t, op |-> "save",
                                        branch |-> "-", arg |-> c,
                                        ret |-> ret'[t]])
                 /\ UNCHANGED buf
    /\ fsUnchanged
    /\ UNCHANGED <<cfgPool, awaits, off, prev>>
    /\ UNCHANGED <<dlVars, vpnVars, feVars>>

SaveOpen(t) ==
    /\ pc[t] = "save_open"
    /\ FsOpen(t, "save", "-", "save_write")
    /\ UNCHANGED <<dlVars, vpnVars, feVars>>

SaveWrite(t) ==
    /\ pc[t] = "save_write"
    /\ FsWrite(t, "save", "-", Ok(NoConfig))
    /\ UNCHANGED <<dlVars, vpnVars, feVars>>

StoreInit ==
    /\ appDataDir \in BOOLEAN
    /\ fsWritable \in BOOLEAN
    /\ dirExists \in BOOLEAN
    /\ fileExists \in BOOLEAN
    /\ fileExists => dirExists
    /\ fileAccess \in BOOLEAN
    /\ ~fileExists => fileAccess
    /\ fileContent \in InitialFiles
    /\ ~fileExists => fileContent = <<>>
    /\ pc = [t \in Tasks |-> "idle"]
    /\ arg = [t \in Tasks |-> NoConfig]
    /\ buf = [t \in Tasks |-> <<>>]
    /\ off = [t \in Tasks |-> 0]
    /\ prev = [t \in Tasks |-> <<>>]
    /\ ret = [t \in Tasks |-> NoRet]
    /\ calls = 0
    /\ log = <<>>

\* ------------------------------------------------------- download_episodes
vars == <<storeVars, dlVars, vpnVars, feVars>>

\* Result<String, String>; a message is the sequence of its parts.
DlOk(m)  == [ok |-> TRUE, msg |-> m]
DlErr(m) == [ok |-> FALSE, msg |-> m]

\* Bytes of standard output: a letter, a line feed, a byte that is not UTF-8.
OutBytes == {"a", "nl", "bad"}
\* "close": the worker closes its standard output and goes on
WorkerOps == OutBytes \cup {"err", "close"}
ExitOps == {"exit0", "exit1"}

Last(q) == q[Len(q)]

PhaseOf(p, r) ==
    CASE p = "idle" -> "NotStarted"
      [] p \in {"resolve", "spawn"} -> "Spawning"
      [] p \in {"stream", "wait"} -> "Streaming"
      [] p = "done" -> IF r.ok THEN "Succeeded" ELSE "Failed"

\* Move to position p with result r and notifications em.
Goto(p, r, em) ==
    /\ dl_pc' = p
    /\ dl_ret' = r
    /\ emitted' = em
    /\ dl_phases' = IF PhaseOf(p, r) = Last(dl_phases) THEN dl_phases
                    ELSE Append(dl_phases, PhaseOf(p, r))
    /\ emittedAtEnd' = IF p = "done" THEN Len(em) ELSE emittedAtEnd

workerUnchanged == UNCHANGED <<wk, wk_next, wk_count, wk_code, wk_cfg,
                               wk_written, wk_errs, outPipe, outClosed,
                               errPipe>>

DownloadInvoke ==
    /\ dl_pc = "idle"
    /\ awaits => NoCommandRunning
    /\ \E c \in cfgPool : dl_arg' = c
    /\ Goto("resolve", dl_ret, emitted)
    /\ workerUnchanged
    /\ UNCHANGED <<cur, status>>
    /\ UNCHANGED <<storeVars, vpnVars, feVars>>

\* get_python_script_path(&app_handle)? and app_data_dir().ok_or(..)?
DownloadResolve ==
    /\ dl_pc = "resolve"
    /\ \E found \in BOOLEAN :
         IF ~found
         THEN Goto("done", DlErr(<<"Could not find Python script">>), emitted)
         ELSE IF ~appDataDir
              THEN Goto("done", DlErr(<<"Could not get app data directory">>),
                        emitted)
              ELSE Goto("spawn", dl_ret, emitted)
    /\ workerUnchanged
    /\ UNCHANGED <<dl_arg, cur, status>>
    /\ UNCHANGED <<storeVars, vpnVars, feVars>>

\* A spawn failure that is also reported to the front end as a notification.
SpawnFailed_Notifies ==
    /\ dl_pc = "spawn"
    /\ \E e \in {"NotFound", "PermissionDenied"} :
         Goto("done", DlErr(<<"Failed to start download: ", e>>),
              Append(emitted, <<e>>))
    /\ wk' = "failed"
    /\ UNCHANGED <<wk_next, wk_count, wk_code, wk_cfg, wk_written, wk_errs,
                   outPipe, outClosed, errPipe>>
    /\ UNCHANGED <<dl_arg, cur, status>>
    /\ UNCHANGED <<storeVars, vpnVars, feVars>>

\* Command::new("python3")...spawn() fails
SpawnFailed ==
    /\ dl_pc = "spawn"
    /\ \E e \in {"NotFound", "PermissionDenied"} :
         Goto("done", DlErr(<<"Failed to start download: ", e>>), emitted)
    /\ wk' = "failed"
    /\ UNCHANGED <<wk_next, wk_count, wk_code, wk_cfg, wk_written, wk_errs,
                   outPipe, outClosed, errPipe>>
    /\ UNCHANGED <<dl_arg, cur, status>>
    /\ UNCHANGED <<storeVars, vpnVars, feVars>>

\* The operation a worker script performs after `n` writes.
NextOps(n) == IF n < MaxOps THEN WorkerOps \cup ExitOps ELSE ExitOps

\* The same once it has closed its standard output.
ClosedOps(n) == IF n < MaxOps THEN {"err"} \cup ExitOps ELSE ExitOps

\* spawn() succeeds: the worker runs with --config config_path and reads
\* that file.
SpawnOk ==
    /\ dl_pc = "spawn"
    /\ wk' = "running"
    /\ wk_cfg' = [exists |-> fileExists, content |-> fileContent]
    /\ wk_next' \in NextOps(0)
    /\ Goto("stream", dl_ret, emitted)
    /\ UNCHANGED <<wk_count, wk_code, wk_written, wk_errs, outPipe, outClosed,
                   errPipe>>
    /\ UNCHANGED <<dl_arg, cur, status>>
    /\ UNCHANGED <<storeVars, vpnVars, feVars>>

\* A line read_line hands out is Ok when its bytes are UTF-8.
LineOk(l) == \A i \in 1..Len(l) : l[i] # "bad"

\* for line in reader.lines() { if let Ok(line) = line { window.emit(..) } }
\* (what window.emit returns is discarded: let _ = ...)
Emit(l) == IF LineOk(l) THEN Append(emitted, l) ELSE emitted

\* reader.lines(), one byte: a line feed ends the line, which goes out
\* without it.
StreamByte ==
    /\ dl_pc = "stream"
    /\ outPipe # <<>>
    /\ outPipe' = Tail(outPipe)
    /\ IF Head(outPipe) = "nl"
       THEN /\ cur' = <<>>
            /\ Goto("stream", dl_ret, Emit(cur))
       ELSE /\ cur' = Append(cur, Head(outPipe))
            /\ Goto("stream", dl_ret, emitted)
    /\ UNCHANGED <<wk, wk_next, wk_count, wk_code, wk_cfg, wk_written,
                   wk_errs, outClosed, errPipe>>
    /\ UNCHANGED <<dl_arg, status>>
    /\ UNCHANGED <<storeVars, vpnVars, feVars>>

\* reader.lines() at end of stream: what is left is the last line.
StreamEof ==
    /\ dl_pc = "stream"
    /\ outPipe = <<>> /\ outClosed
    /\ cur' = <<>>
    /\ Goto("wait", dl_ret, IF cur = <<>> THEN emitted ELSE Emit(cur))
    /\ workerUnchanged
    /\ UNCHANGED <<dl_arg, status>>
    /\ UNCHANGED <<storeVars, vpnVars, feVars>>

\* The text of the result for an exit status.
Classify(code) ==
    IF code = 0 THEN DlOk(<<"Download completed successfully">>)
    ELSE DlErr(<<"Download failed">>)

\* A wait that returns only for a worker that exited by itself.
WaitExit_OnlyOwnExit ==
    /\ dl_pc = "wait"
    /\ wk = "exited"
    /\ status' = IF wk_code = 0 THEN "exit0" ELSE "exit1"
    /\ Goto("done", Classify(wk_code), emitted)
    /\ workerUnchanged
    /\ UNCHANGED <<dl_arg, cur>>
    /\ UNCHANGED <<storeVars, vpnVars, feVars>>

\* child.wait() returns the exit status, of a worker that exited or was
\* killed
WaitExit ==
    /\ dl_pc = "wait"
    /\ wk \in {"exited", "killed"}
    /\ status' = IF wk = "killed" THEN "signal"
                 ELSE IF wk_code = 0 THEN "exit0" ELSE "exit1"
    /\ Goto("done", Classify(wk_code), emitted)
    /\ workerUnchanged
    /\ UNCHANGED <<dl_arg, cur>>
    /\ UNCHANGED <<storeVars, vpnVars, feVars>>

\* child.wait() fails: map_err(|e| e.to_string())?
WaitError ==
    /\ dl_pc = "wait"
    /\ status' = "error"
    /\ Goto("done", DlErr(<<"ECHILD">>), emitted)
    /\ workerUnchanged
    /\ UNCHANGED <<dl_arg, cur>>
    /\ UNCHANGED <<storeVars, vpnVars, feVars>>

\* ------------------------------------------------------------- the worker
WorkerDid ==
    /\ wk_count' = wk_count + 1
    /\ wk_next' \in IF outClosed THEN ClosedOps(wk_count + 1)
                   ELSE NextOps(wk_count + 1)

\* a write to standard output; it blocks while the pipe is full
WorkerWriteOut ==
    /\ wk = "running"
    /\ wk_next \in OutBytes
    /\ Len(outPipe) < PipeCap
    /\ outPipe' = Append(outPipe, wk_next)
    /\ wk_written' = Append(wk_written, wk_next)
    /\ WorkerDid
    /\ UNCHANGED <<wk, wk_code, wk_cfg, wk_errs, outClosed, errPipe>>
    /\ UNCHANGED <<dl_pc, dl_arg, dl_ret, emitted, cur, status, dl_phases,
                   emittedAtEnd>>
    /\ UNCHANGED <<storeVars, vpnVars, feVars>>

\* a write to standard error; it blocks while the pipe is full
WorkerWriteErr ==
    /\ wk = "running"
    /\ wk_next = "err"
    /\ Len(errPipe) < PipeCap
    /\ errPipe' = Append(errPipe, "e")
    /\ wk_errs' = Append(wk_errs, "e")
    /\ WorkerDid
    /\ UNCHANGED <<wk, wk_code, wk_cfg, wk_written, outPipe, outClosed>>
    /\ UNCHANGED <<dl_pc, dl_arg, dl_ret, emitted, cur, status, dl_phases,
                   emittedAtEnd>>
    /\ UNCHANGED <<storeVars, vpnVars, feVars>>

\* the worker exits; its ends of the pipes close
WorkerExit ==
    /\ wk = "running"
    /\ wk_next \in ExitOps
    /\ wk' = "exited"
    /\ wk_code' = IF wk_next = "exit0" THEN 0 ELSE 1
    /\ outClosed' = TRUE
    /\ UNCHANGED <<wk_next, wk_count, wk_cfg, wk_written, wk_errs, outPipe,
                   errPipe>>
    /\ UNCHANGED <<dl_pc, dl_arg, dl_ret, emitted, cur, status, dl_phases,
                   emittedAtEnd>>
    /\ UNCHANGED <<storeVars, vpnVars, feVars>>

\* the worker closes its standard output and goes on running
WorkerCloseOut ==
    /\ wk = "running"
    /\ wk_next = "close"
    /\ outClosed' = TRUE
    /\ wk_count' = wk_count + 1
    /\ wk_next' \in ClosedOps(wk_count + 1)
    /\ UNCHANGED <<wk, wk_code, wk_cfg, wk_written, wk_errs, outPipe, errPipe>>
    /\ UNCHANGED <<dl_pc, dl_arg, dl_ret, emitted, cur, status, dl_phases,
                   emittedAtEnd>>
    /\ UNCHANGED <<storeVars, vpnVars, feVars>>

\* the worker is killed from outside, wherever it stands: it is gone, its
\* ends of the pipes close, and its status is that of a signal: no exit code
\* (-1 here), not success()
WorkerKilled ==
    /\ wk = "running"
    /\ wk' = "killed"
    /\ wk_code' = -1
    /\ outClosed' = TRUE
    /\ UNCHANGED <<wk_next, wk_count, wk_cfg, wk_written, wk_errs, outPipe,
                   errPipe>>
    /\ UNCHANGED <<dl_pc, dl_arg, dl_ret, emitted, cur, status, dl_phases,
                   emittedAtEnd>>
    /\ UNCHANGED <<storeVars, vpnVars, feVars>>

DownloadInit ==
    /\ dl_pc = "idle"
    /\ dl_arg = NoConfig
    /\ dl_ret = DlErr(<<>>)
    /\ emitted = <<>>
    /\ cur = <<>>
    /\ status = "none"
    /\ wk = "none"
    /\ wk_next = "none"
    /\ wk_count = 0
    /\ wk_code = 0
    /\ wk_cfg = [exists |-> FALSE, content |-> <<>>]
    /\ wk_written = <<>>
    /\ wk_errs = <<>>
    /\ outPipe = <<>>
    /\ outClosed = FALSE
    /\ errPipe = <<>>
    /\ dl_phases = <<"NotStarted">>
    /\ emittedAtEnd = 0

\* --------------------------------------------------------------- check_vpn
\* let services = [..]: the geolocation services, in the order of the loop
Services == <<"https://ipapi.co/json/", "https://ip.seeip.org/geoip">>

\* A member of a decoded JSON value: absent, a string, or another value.
Absent == <<"absent">>
NonStr == <<"other">>
S(s)   == <<"str", s>>

JsonMember(strings) == {Absent, NonStr} \cup { S(s) : s \in strings }

\* What a service answers: send() fails, the body is not JSON, or the body
\* decodes to a value with these members (none when it is not an object).
Unreachable == [kind |-> "unreachable"]
Undecodable == [kind |-> "undecodable"]
Decoded ==
    [kind : {"json"},
     country_code : JsonMember({"JP", "US"}),
     cc : JsonMember({"JP", "US"}),
     ip : JsonMember({"1.2.3.4", "5.6.7.8"})]

Responses == {Unreachable, Undecodable} \cup Decoded

Decodable(r) == r.kind = "json"

\* .and_then(|v| v.as_str()).unwrap_or(d)
AsStrOr(v, d) == IF v[1] = "str" THEN v[2] ELSE d

\* The country read from "cc" first and from "country_code" when it is absent.
Country_CcFirst(data) ==
    AsStrOr(IF data.cc # Absent THEN data.cc ELSE data.country_code, "")

\* data.get("country_code").or_else(|| data.get("cc"))
\*     .and_then(|v| v.as_str()).unwrap_or("")
Country(data) ==
    AsStrOr(IF data.country_code # Absent THEN data.country_code
            ELSE data.cc, "")

\* data.get("ip").and_then(|v| v.as_str()).unwrap_or("unknown")
Ip(data) == AsStrOr(data.ip, "unknown")

Connected(ip) == DlOk(<<"Connected via Japan IP (", ip, ")">>)
NotConnected(country, ip) ==
    DlErr(<<"Not connected to Japan VPN (detected: ", country, ", IP: ", ip,
            ")">>)
CouldNotVerify == DlErr(<<"Could not verify VPN connection">>)

\* if country == "JP" { return Ok(..) } else { return Err(..) }
Verdict(data) ==
    IF Country(data) = "JP" THEN Connected(Ip(data))
    ELSE NotConnected(Country(data), Ip(data))

VpnInvoke ==
    /\ vpn_pc = "idle"
    /\ vpn_pc' = "query"
    /\ vpn_i' = 1
    /\ vpn_asked' = <<>>
    /\ UNCHANGED vpn_ret
    /\ UNCHANGED <<storeVars, dlVars, feVars>>

\* A service that cannot be reached ends the attempt with a denial.
VpnSkip_Denies ==
    /\ vpn_pc = "query"
    /\ vpn_i <= Len(Services)
    /\ \E r \in {Unreachable, Undecodable} :
         /\ vpn_asked' = Append(vpn_asked,
                                [service |-> Services[vpn_i], resp |-> r])
         /\ vpn_ret' = NotConnected("", "unknown")
    /\ vpn_pc' = "done"
    /\ UNCHANGED vpn_i
    /\ UNCHANGED <<storeVars, dlVars, feVars>>

\* send() or response.json() is an Err: neither `if let Ok` matches and the
\* loop goes on to the next service.
VpnSkip ==
    /\ vpn_pc = "query"
    /\ vpn_i <= Len(Services)
    /\ \E r \in {Unreachable, Undecodable} :
         vpn_asked' = Append(vpn_asked,
                             [service |-> Services[vpn_i], resp |-> r])
    /\ vpn_i' = vpn_i + 1
    /\ UNCHANGED <<vpn_pc, vpn_ret>>
    /\ UNCHANGED <<storeVars, dlVars, feVars>>

\* A decoded response that decides only when it names Japan.
VpnDecide_OnlyJapanDecides ==
    /\ vpn_pc = "query"
    /\ vpn_i <= Len(Services)
    /\ \E r \in Decoded :
         /\ vpn_asked' = Append(vpn_asked,
                                [service |-> Services[vpn_i], resp |-> r])
         /\ IF Country(r) = "JP"
            THEN /\ vpn_ret' = Verdict(r)
                 /\ vpn_pc' = "done"
                 /\ UNCHANGED vpn_i
            ELSE /\ vpn_i' = vpn_i + 1
                 /\ UNCHANGED <<vpn_pc, vpn_ret>>
    /\ UNCHANGED <<storeVars, dlVars, feVars>>

\* A decoded response without a country code is passed over.
VpnDecide_SkipsMissingCode ==
    /\ vpn_pc = "query"
    /\ vpn_i <= Len(Services)
    /\ \E r \in Decoded :
         /\ vpn_asked' = Append(vpn_asked,
                                [service |-> Services[vpn_i], resp |-> r])
         /\ IF Country(r) # ""
            THEN /\ vpn_ret' = Verdict(r)
                 /\ vpn_pc' = "done"
                 /\ UNCHANGED vpn_i
            ELSE /\ vpn_i' = vpn_i + 1
                 /\ UNCHANGED <<vpn_pc, vpn_ret>>
    /\ UNCHANGED <<storeVars, dlVars, feVars>>

\* both `if let Ok` match: the function returns from inside the loop
VpnDecide ==
    /\ vpn_pc = "query"
    /\ vpn_i <= Len(Services)
    /\ \E r \in Decoded :
         /\ vpn_asked' = Append(vpn_asked,
                                [service |-> Services[vpn_i], resp |-> r])
         /\ vpn_ret' = Verdict(r)
    /\ vpn_pc' = "done"
    /\ UNCHANGED vpn_i
    /\ UNCHANGED <<storeVars, dlVars, feVars>>

\* the loop ends without a return: Err("Could not verify VPN connection")
VpnExhausted ==
    /\ vpn_pc = "query"
    /\ vpn_i > Len(Services)
    /\ vpn_ret' = CouldNotVerify
    /\ vpn_pc' = "done"
    /\ UNCHANGED <<vpn_i, vpn_asked>>
    /\ UNCHANGED <<storeVars, dlVars, feVars>>

VpnInit ==
    /\ vpn_pc = "idle"
    /\ vpn_i = 1
    /\ vpn_ret = DlErr(<<>>)
    /\ vpn_asked = <<>>

VpnStep ==
    \/ VpnInvoke
    \/ VpnSkip
    \/ VpnDecide
    \/ VpnExhausted

\* ---------------------------------------------------------- fetch_episodes
MaxErrChunks == 2

\* Result<Vec<Episode>, String>; a message is the sequence of its parts, and
\* format! puts the parts one after the other.
FeOk(eps) == [ok |-> TRUE, val |-> eps, msg |-> <<>>]
FeErr(m)  == [ok |-> FALSE, val |-> <<>>, msg |-> m]

SerEpisode(e) ==
    <<LBrace, Key("url"), Str(e.url), Key("title"), Str(e.title),
      Key("id"), Str(e.id), RBrace>>

EpisodeA == [url |-> "https://tver.jp/episodes/ep1", title |-> "t1",
             id |-> "ep1"]

\* What a resolver may leave on standard output: nothing, an empty list, a
\* list of one episode, a list cut short, an object, an episode without its
\* id, and text that is not JSON.
StdoutDomain ==
    { <<>>,
      <<LBrack, RBrack>>,
      <<LBrack>> \o SerEpisode(EpisodeA) \o <<RBrack>>,
      <<LBrack>> \o SerEpisode(EpisodeA),
      <<LBrace, RBrace>>,
      <<LBrack, LBrace, Key("url"), Str("u"), Key("title"), Str("t"), RBrace,
        RBrack>>,
      <<Str("Traceback")>> }

\* Pieces of what a resolver may leave on standard error; "bad" is a byte
\* sequence that is not UTF-8.
ErrChunks ==
    {"rate limited", "Failed to parse episodes: ",
     "EOF while parsing a value", "bad"}

StderrDomain == SeqsUpTo(ErrChunks, MaxErrChunks)

ParseEpisode(toks) ==
    LET u == ParseStr(AfterTok(AfterTok(toks, LBrace), Key("url")))
        t == ParseStr(AfterTok(u.rest, Key("title")))
        i == ParseStr(AfterTok(t.rest, Key("id")))
    IN  IF i.ok /\ StartsWith(i.rest, RBrace)
        THEN POk([url |-> u.val, title |-> t.val, id |-> i.val], Tail(i.rest))
        ELSE PFail

RECURSIVE ParseEpisodeItems(_, _)
ParseEpisodeItems(toks, acc) ==
    IF toks = <<>> THEN PFail
    ELSE IF Head(toks) = RBrack THEN POk(acc, Tail(toks))
    ELSE LET e == ParseEpisode(toks)
         IN  IF e.ok THEN ParseEpisodeItems(e.rest, Append(acc, e.val))
             ELSE PFail

\* serde_json::from_slice::<Vec<Episode>>: Ok only when the whole input is
\* one list of episodes.
from_slice(toks) ==
    LET l == IF StartsWith(toks, LBrack)
             THEN ParseEpisodeItems(Tail(toks), <<>>) ELSE PFail
    IN  IF l.ok /\ l.rest = <<>> THEN l ELSE PFail

\* The text of the serde_json error for an input from_slice rejects.
ParseErrorText(toks) ==
    IF toks = <<>> \/ Last(toks) # RBrack THEN "EOF while parsing a value"
    ELSE "invalid type or missing field"

\* String::from_utf8_lossy: what is not UTF-8 becomes U+FFFD.
from_utf8_lossy(bytes) ==
    [i \in 1..Len(bytes) |-> IF bytes[i] = "bad" THEN "U+FFFD" ELSE bytes[i]]

\* What Command::output() may return.
SpawnErrors == {"NotFound", "PermissionDenied"}

RunSpawnFailed(e) ==
    [kind |-> "spawn_failed", error |-> e, code |-> 0, stdout |-> <<>>,
     stderr |-> <<>>]
RunOutput(c, out, err) ==
    [kind |-> "ran", error |-> "", code |-> c, stdout |-> out, stderr |-> err]
NoRun ==
    [kind |-> "none", error |-> "", code |-> 0, stdout |-> <<>>,
     stderr |-> <<>>]

Runs ==
    { RunSpawnFailed(e) : e \in SpawnErrors }
    \cup { RunOutput(c, out, err) :
             c \in {0, 1}, out \in StdoutDomain, err \in StderrDomain }

\* The result that looks at standard output before the exit status.
fetch_result_ParsesFirst(run) ==
    IF run.kind = "spawn_failed"
    THEN FeErr(<<"Failed to execute Python script: ", run.error>>)
    ELSE IF from_slice(run.stdout).ok
         THEN FeOk(from_slice(run.stdout).val)
         ELSE IF run.code # 0
              THEN FeErr(from_utf8_lossy(run.stderr))
              ELSE FeErr(<<"Failed to parse episodes: ",
                           ParseErrorText(run.stdout)>>)

\* fetch_episodes from Command::output() on: map_err on the spawn error, the
\* early return on !output.status.success(), from_slice with map_err.
fetch_result(run) ==
    IF run.kind = "spawn_failed"
    THEN FeErr(<<"Failed to execute Python script: ", run.error>>)
    ELSE IF run.code # 0
         THEN FeErr(from_utf8_lossy(run.stderr))
         ELSE IF from_slice(run.stdout).ok
              THEN FeOk(from_slice(run.stdout).val)
              ELSE FeErr(<<"Failed to parse episodes: ",
                           ParseErrorText(run.stdout)>>)

FetchInvoke ==
    /\ fe_pc = "idle"
    /\ fe_url' \in {"https://tver.jp/series/s1", "https://tver.jp/series/s2"}
    /\ fe_pc' = "resolve"
    /\ UNCHANGED <<fe_run, fe_ret>>
    /\ UNCHANGED <<storeVars, dlVars, vpnVars>>

\* get_python_script_path(&app_handle)?
FetchResolve ==
    /\ fe_pc = "resolve"
    /\ \E found \in BOOLEAN :
         IF found
         THEN /\ fe_pc' = "output"
              /\ UNCHANGED fe_ret
         ELSE /\ fe_pc' = "done"
              /\ fe_ret' = FeErr(<<"Could not find Python script">>)
    /\ UNCHANGED <<fe_url, fe_run>>
    /\ UNCHANGED <<storeVars, dlVars, vpnVars>>

\* Command::new("python3")...output() and what follows it
FetchOutput ==
    /\ fe_pc = "output"
    /\ fe_run' \in Runs
    /\ fe_ret' = fetch_result(fe_run')
    /\ fe_pc' = "done"
    /\ UNCHANGED fe_url
    /\ UNCHANGED <<storeVars, dlVars, vpnVars>>

FetchInit ==
    /\ fe_pc = "idle"
    /\ fe_url = ""
    /\ fe_run = NoRun
    /\ fe_ret = FeErr(<<>>)

FetchStep ==
    \/ FetchInvoke
    \/ FetchResolve
    \/ FetchOutput

\* ---------------------------------------------------------- specifications
StoreStep(t) ==
    \/ LoadInvoke(t)
    \/ LoadExists(t)
    \/ LoadMkdir(t)
    \/ LoadOpen(t)
    \/ LoadWrite(t)
    \/ LoadRead(t)
    \/ SaveInvoke(t)
    \/ SaveOpen(t)
    \/ SaveWrite(t)

DownloadStep ==
    \/ DownloadInvoke
    \/ DownloadResolve
    \/ SpawnFailed
    \/ SpawnOk
    \/ StreamByte
    \/ StreamEof
    \/ WaitExit
    \/ WaitError

WorkerStep ==
    \/ WorkerWriteOut
    \/ WorkerWriteErr
    \/ WorkerCloseOut
    \/ WorkerExit

\* The front end calls one command at a time: configuration commands, then
\* one download run.
Init ==
    /\ StoreInit
    /\ awaits = TRUE
    /\ cfgPool = {CfgA, CfgB}
    /\ DownloadInit
    /\ VpnInit
    /\ FetchInit

Next ==
    \/ \E t \in Tasks : StoreStep(t)
    \/ DownloadStep
    \/ WorkerStep

Spec == Init /\ [][Next]_vars

\* One configuration command at a time, called with any configuration of
\* the domain.
InitStore ==
    /\ StoreInit
    /\ awaits = TRUE
    /\ \E c \in ConfigDomain : cfgPool = {c}
    /\ DownloadInit
    /\ VpnInit
    /\ FetchInit

NextStore == \E t \in Tasks : StoreStep(t)

SpecStore == InitStore /\ [][NextStore]_vars

\* Configuration commands racing each other.
InitConc ==
    /\ StoreInit
    /\ awaits = FALSE
    /\ cfgPool = {CfgA, CfgB}
    /\ DownloadInit
    /\ VpnInit
    /\ FetchInit

SpecConc == InitConc /\ [][NextStore]_vars

\* One download run, whose worker may be killed from outside. The command and
\* the worker each go on whenever they can; nothing makes the front end call,
\* the kill happen or child.wait() fail.
NextRun ==
    \/ DownloadStep
    \/ WorkerStep
    \/ WorkerKilled

FairRun ==
    /\ WF_vars(DownloadResolve)
    /\ WF_vars(SpawnOk \/ SpawnFailed)
    /\ WF_vars(StreamByte)
    /\ WF_vars(StreamEof)
    /\ WF_vars(WaitExit)
    /\ WF_vars(WorkerStep)

SpecRun == Init /\ [][NextRun]_vars /\ FairRun

\* check_vpn and fetch_episodes; they touch neither the file nor the worker.
NextVpn == VpnStep

SpecVpn == Init /\ [][NextVpn]_vars

NextFetch == FetchStep

SpecFetch == Init /\ [][NextFetch]_vars

\* ------------------------------------------------------------- properties
\* The lines of a byte stream: each run of bytes up to a line feed, and what
\* follows the last line feed when it is not empty.
RECURSIVE SplitLines(_, _, _)
SplitLines(bytes, line, acc) ==
    IF bytes = <<>>
    THEN IF line = <<>> THEN acc ELSE Append(acc, line)
    ELSE IF Head(bytes) = "nl"
         THEN SplitLines(Tail(bytes), <<>>, Append(acc, line))
         ELSE SplitLines(Tail(bytes), Append(line, Head(bytes)), acc)

LinesWritten == SplitLines(wk_written, <<>>, <<>>)

IsPrefix(p, q) ==
    /\ Len(p) <= Len(q)
    /\ \A i \in 1..Len(p) : p[i] = q[i]

Range(q) == { q[i] : i \in 1..Len(q) }

Terminal == {"Succeeded", "Failed"}

\* C1: the notifications are the lines the worker wrote to standard output,
\* one per line and in the order written, and all of them are out when
\* download_episodes returns.
C1_EveryLineForwardedInOrder ==
    /\ IsPrefix(emitted, LinesWritten)
    /\ dl_pc = "done" => emitted = LinesWritten

\* C2: when the worker has exited with a non-zero code, download_episodes
\* returns a failure, and by then the pipe is drained and every line the
\* worker wrote has gone out as a notification.
C2_FailureAfterAllLinesForwarded ==
    status = "exit1" =>
        /\ dl_pc = "done" /\ ~dl_ret.ok
        /\ outPipe = <<>> /\ cur = <<>>
        /\ Len(emitted) = Len(LinesWritten)

\* The phases an invocation may have gone through, in the order of the state
\* machine NotStarted, Spawning, Streaming, terminal.
PhasePaths ==
    { <<"NotStarted">>, <<"NotStarted", "Spawning">>,
      <<"NotStarted", "Spawning", "Streaming">> }
    \cup { <<"NotStarted", "Spawning", x>> : x \in Terminal }
    \cup { <<"NotStarted", "Spawning", "Streaming", x>> : x \in Terminal }

\* A step of the run or of its worker is possible.
RunCanStep ==
    ENABLED (DownloadResolve \/ SpawnFailed \/ SpawnOk \/ StreamByte
             \/ StreamEof \/ WaitExit \/ WaitError \/ WorkerStep)

\* C3: an invocation goes through NotStarted, Spawning, Streaming in that
\* order, reaches Succeeded or Failed once (never both, and it never stops
\* short of one), and emits nothing after that.
C3_TerminalExactlyOnce ==
    /\ dl_phases \in PhasePaths
    /\ dl_pc = "done" => Len(emitted) = emittedAtEnd
    /\ dl_pc \notin {"idle", "done"} => RunCanStep

\* The part of C3 that does not ask the run to end: the order of the phases,
\* at most one terminal phase, nothing emitted after it.
C3_OrderAndNoLateEvents ==
    /\ dl_phases \in PhasePaths
    /\ dl_pc = "done" => Len(emitted) = emittedAtEnd

\* C4: when spawning the worker fails, download_episodes has returned the
\* spawn-failure error in that same step and has emitted no notification.
C4_SpawnFailureNoEvents ==
    wk = "failed" =>
        /\ dl_pc = "done" /\ ~dl_ret.ok
        /\ Head(dl_ret.msg) = "Failed to start download: "
        /\ dl_phases = <<"NotStarted", "Spawning", "Failed">>
        /\ emitted = <<>>

C4_Witness ==
    /\ wk = "failed"
    /\ dl_ret = DlErr(<<"Failed to start download: ", "NotFound">>)

\* C5: a zero exit status is reported as success, a non-zero one as a
\* failure that carries what the worker wrote to standard error.
C5_FailureCarriesStderr ==
    /\ status = "exit0" => dl_pc = "done" /\ dl_ret.ok
    /\ status = "exit1" =>
          /\ dl_pc = "done" /\ ~dl_ret.ok
          /\ Range(wk_errs) \subseteq Range(dl_ret.msg)

\* C6: the file the worker is pointed at holds the config argument of the
\* invocation when the worker is spawned (shown for the invocations that
\* follow a completed save_config).
C6_WorkerReadsArgument ==
    (/\ wk \in {"running", "exited"}
     /\ log # <<>> /\ Last(log).op = "save" /\ Last(log).ret.ok)
    => /\ wk_cfg.exists
       /\ wk_cfg.content = to_string_pretty(dl_arg)

\* C7: while a save_config is writing over a valid configuration file,
\* config.json holds a complete Config document: the whole previous one or
\* the whole new one.
C7_SaveIsAtomic ==
    \A t \in Tasks :
        (pc[t] = "save_write" /\ from_str(prev[t]).ok) =>
            /\ from_str(fileContent).ok
            /\ fileContent \in {prev[t], buf[t]}

\* The completed commands of the log, as positions.
Entries == 1..Len(log)

\* The one task of SpecStore is between two commands.
Idle == \A t \in Tasks : pc[t] = "idle"

\* C8: a load_config that follows a successful save_config(C), with nothing
\* in between, returns C: the same series in the same order, the same
\* pattern and option lists, an absent thumbnail absent and an empty one
\* empty.
C8_SaveThenLoadReturnsArgument ==
    \A i \in Entries :
        (/\ i < Len(log)
         /\ log[i].op = "save" /\ log[i].ret.ok
         /\ log[i + 1].op = "load")
        => log[i + 1].ret = Ok(log[i].arg)

C8_Witness ==
    /\ Len(log) = 2
    /\ log[1].op = "save" /\ log[1].ret.ok
    /\ log[1].arg.series = <<SeriesEntry("b", <<>>), SeriesEntry("a", <<"">>)>>
    /\ log[2].op = "load" /\ log[2].ret.ok
    /\ log[2].ret.val.series[1].thumbnail_url = <<>>
    /\ log[2].ret.val.series[2].thumbnail_url = <<"">>

\* C9: a load_config that finds no file returns a configuration with no
\* series and a download path that is not empty, and leaves it in the file
\* (it fails only where the directory or the file cannot be created); the
\* load_config after it reads the file and returns the same value.
C9_DefaultCreatedOnceThenRead ==
    \A i \in Entries :
        (log[i].op = "load" /\ log[i].branch = "default") =>
            IF log[i].ret.ok
            THEN /\ log[i].ret.val.series = <<>>
                 /\ log[i].ret.val.download_path # ""
                 /\ (i = Len(log) /\ Idle) =>
                        /\ fileExists
                        /\ from_str(fileContent) = POk(log[i].ret.val, <<>>)
                 /\ (i < Len(log) /\ log[i + 1].op = "load") =>
                        /\ log[i + 1].branch = "read"
                        /\ log[i + 1].ret = log[i].ret
            ELSE ~fsWritable

C9_Witness ==
    /\ Len(log) = 2
    /\ log[1].op = "load" /\ log[1].branch = "default" /\ log[1].ret.ok
    /\ log[2].op = "load" /\ log[2].branch = "read"
    /\ log[2].ret = Ok(default_config)

\* C10 as stated, for a file that is present: load_config does not fail on
\* it, whatever it holds and whoever may read it.
C10_PresentFileNeverFails ==
    \A i \in Entries :
        (log[i].op = "load" /\ log[i].branch = "read") => log[i].ret.ok

\* C10 as amended: load_config creates and returns the default only when the
\* file is missing (with an I/O error where the directory or the file cannot
\* be created); a file that is present but cannot be opened or is not a
\* Config document yields the I/O or parse error, and the file is left as
\* it is.
C10_MissingCreatesUnreadableFails ==
    \A i \in Entries :
        log[i].op = "load" =>
            /\ log[i].branch = "default" =>
                   \/ log[i].ret = Ok(default_config)
                   \/ log[i].ret = Err("io") /\ ~fsWritable
            /\ (log[i].branch = "read" /\ i = Len(log) /\ Idle) =>
                   log[i].ret =
                       IF ~fileAccess THEN Err("io")
                       ELSE IF ~from_str(fileContent).ok THEN Err("parse")
                       ELSE Ok(from_str(fileContent).val)

C10_Witness ==
    /\ Len(log) = 1 /\ Idle
    /\ log[1].op = "load" /\ log[1].branch = "read"
    /\ log[1].ret = Err("parse")
    /\ fileExists /\ fileContent = <<LBrace, Key("series"), LBrack>>

\* ----------------------------------------------------- check_vpn properties
VpnDone == vpn_pc = "done"

Asked(k) == vpn_asked[k].resp

\* C11: the services are queried in the order of the list; a decodable
\* response is the last one asked for, and it decides at once: success when
\* its country code is "JP", a denial naming the code otherwise.
C11_FirstDecodableDecides ==
    /\ Len(vpn_asked) <= Len(Services)
    /\ \A k \in 1..Len(vpn_asked) :
         /\ vpn_asked[k].service = Services[k]
         /\ Decodable(Asked(k)) =>
              /\ k = Len(vpn_asked)
              /\ VpnDone
              /\ vpn_ret.ok <=> Country(Asked(k)) = "JP"
              /\ ~vpn_ret.ok => vpn_ret.msg[1] =
                                  "Not connected to Japan VPN (detected: "

\* The first service answers with a foreign country: denial, and the second
\* service is never asked.
C11_Witness ==
    /\ VpnDone
    /\ Len(vpn_asked) = 1
    /\ Decodable(Asked(1))
    /\ Country(Asked(1)) = "US"
    /\ ~vpn_ret.ok

\* C12: a service that is unreachable or answers an undecodable body is
\* passed over: the run ends on it only when it is the last of the list, and
\* then, every service having failed that way, with "Could not verify VPN
\* connection"; that reason is given in no other case and a denial only
\* for a decodable response.
C12_SkippedNeverDenies ==
    /\ \A k \in 1..Len(vpn_asked) :
         (~Decodable(Asked(k)) /\ k < Len(Services)) =>
             \/ Len(vpn_asked) > k
             \/ (vpn_pc = "query" /\ vpn_i = k + 1)
    /\ VpnDone =>
         IF \A k \in 1..Len(vpn_asked) : ~Decodable(Asked(k))
         THEN /\ Len(vpn_asked) = Len(Services)
              /\ vpn_ret = CouldNotVerify
         ELSE vpn_ret # CouldNotVerify

\* One service unreachable, the other undecodable: could not verify.
C12_Witness ==
    /\ VpnDone
    /\ Len(vpn_asked) = Len(Services)
    /\ Asked(1) = Unreachable
    /\ Asked(2) = Undecodable
    /\ vpn_ret = CouldNotVerify

\* C13: with d the response that decided: country_code "JP" and ip X give a
\* success whose message contains X; no country_code, cc "US" and ip Y give
\* a denial whose message contains "US" and Y; cc is read only when
\* country_code is absent.
C13_CountryCodeThenCc ==
    (VpnDone /\ vpn_asked # <<>> /\ Decodable(Last(vpn_asked).resp)) =>
        LET d == Last(vpn_asked).resp
        IN  /\ (d.country_code = S("JP") /\ d.ip[1] = "str") =>
                 /\ vpn_ret.ok
                 /\ d.ip[2] \in Range(vpn_ret.msg)
            /\ (d.country_code = Absent /\ d.cc = S("US") /\ d.ip[1] = "str")
                 => /\ ~vpn_ret.ok
                    /\ "US" \in Range(vpn_ret.msg)
                    /\ d.ip[2] \in Range(vpn_ret.msg)
            /\ (d.country_code = Absent /\ d.cc = S("JP")) => vpn_ret.ok
            /\ (d.country_code = S("US") /\ d.cc = S("JP")) =>
                 /\ ~vpn_ret.ok
                 /\ "US" \in Range(vpn_ret.msg)
            /\ (d.country_code = S("JP") /\ d.cc = S("US")) => vpn_ret.ok

\* {"cc":"US","ip":"5.6.7.8"} from the first service.
C13_Witness ==
    /\ VpnDone
    /\ Len(vpn_asked) = 1
    /\ Asked(1) = [kind |-> "json", country_code |-> Absent, cc |-> S("US"),
                   ip |-> S("5.6.7.8")]
    /\ vpn_ret = NotConnected("US", "5.6.7.8")

\* A decoded response that holds no country code as a string: neither key,
\* or a value that is not a string where the code is read.
NoCountryCode(d) ==
    \/ d.country_code = Absent /\ d.cc \in {Absent, NonStr}
    \/ d.country_code = NonStr

\* C18: a first decodable response without a country code is a denial with
\* an empty observed code, never "Could not verify VPN connection", and no
\* further service is asked.
C18_MissingCodeIsDenial ==
    \A k \in 1..Len(vpn_asked) :
        (Decodable(Asked(k)) /\ NoCountryCode(Asked(k))) =>
            /\ VpnDone
            /\ Len(vpn_asked) = k
            /\ vpn_ret = NotConnected("", Ip(Asked(k)))

\* {"ip":"1.2.3.4"} from the first service.
C18_Witness ==
    /\ VpnDone
    /\ Len(vpn_asked) = 1
    /\ Asked(1) = [kind |-> "json", country_code |-> Absent, cc |-> Absent,
                   ip |-> S("1.2.3.4")]
    /\ vpn_ret = NotConnected("", "1.2.3.4")
    /\ vpn_i = 1

\* ------------------------------------------------ fetch_episodes properties
FetchDone == fe_pc = "done"

ProcessFailed(run) == run.kind = "ran" /\ run.code # 0

Malformed(run) ==
    run.kind = "ran" /\ run.code = 0 /\ ~from_slice(run.stdout).ok

\* C14 (as stated): after a non-zero exit the result is a failure whose
\* message is what the process wrote to standard error, unaltered.
C14_NonZeroExitReturnsStderrVerbatim ==
    (FetchDone /\ ProcessFailed(fe_run)) =>
        /\ ~fe_ret.ok
        /\ fe_ret.msg = fe_run.stderr

\* C14 (amended): after a non-zero exit the result is a failure, whatever
\* standard output holds; its message is standard error piece for piece,
\* each piece that is not UTF-8 replaced by U+FFFD, so it equals standard
\* error when that is UTF-8 text.
C14_NonZeroExitReturnsStderrText ==
    (FetchDone /\ ProcessFailed(fe_run)) =>
        /\ ~fe_ret.ok
        /\ Len(fe_ret.msg) = Len(fe_run.stderr)
        /\ \A i \in 1..Len(fe_run.stderr) :
             fe_ret.msg[i] = IF fe_run.stderr[i] = "bad" THEN "U+FFFD"
                             ELSE fe_run.stderr[i]
        /\ "bad" \notin Range(fe_run.stderr) => fe_ret.msg = fe_run.stderr

\* Exit code 1, "rate limited" on standard error, a well-formed episode
\* list on standard output.
C14_Witness ==
    /\ FetchDone
    /\ fe_run.kind = "ran" /\ fe_run.code = 1
    /\ fe_run.stderr = <<"rate limited">>
    /\ from_slice(fe_run.stdout).ok
    /\ fe_ret = FeErr(<<"rate limited">>)

\* Output that cannot be parsed is never answered with a list, and its
\* failure differs from that of a process that could not be started.
C15_MalformedNeverAList ==
    (FetchDone /\ Malformed(fe_run)) =>
        /\ ~fe_ret.ok
        /\ \A e \in SpawnErrors : fetch_result(RunSpawnFailed(e)) # fe_ret

\* C15: after exit code zero with standard output that is not an episode
\* list the result is a failure, and no run that failed to start or exited
\* non-zero gives the same result.
C15_MalformedOutputIsDistinct ==
    (FetchDone /\ Malformed(fe_run)) =>
        /\ ~fe_ret.ok
        /\ \A r \in Runs :
             (r.kind = "spawn_failed" \/ ProcessFailed(r)) =>
                 fetch_result(r) # fe_ret

\* C16: after two save_config calls, racing or not, have both completed
\* successfully, config.json is the whole serialization of the argument of
\* one of them.
C16_ConcurrentSavesLeaveOneWhole ==
    (/\ Idle
     /\ Len(log) = 2
     /\ log[1].op = "save" /\ log[1].ret.ok
     /\ log[2].op = "save" /\ log[2].ret.ok)
    => fileContent \in {to_string_pretty(log[1].arg),
                        to_string_pretty(log[2].arg)}

\* C20: after a save_config and a load_config, racing or not, have both
\* completed, the save_config successfully, config.json is the serialization
\* of the argument of the save_config: the load_config has not put the
\* default configuration, or part of it, over it.
C20_LoadNeverDestroysSavedConfig ==
    \A i, j \in Entries :
        (/\ Idle
         /\ Len(log) = 2
         /\ log[i].op = "save" /\ log[i].ret.ok
         /\ log[j].op = "load")
        => fileContent = to_string_pretty(log[i].arg)

\* C17: a worker killed from outside, while the command reads its output or
\* waits for it, leads to the command returning, and returning a failure.
C17_KilledWorkerResolves ==
    (wk = "killed") ~> (dl_pc = "done" /\ ~dl_ret.ok)

\* Killed while it was blocked writing to the full standard-error pipe; the
\* command has returned "Download failed".
C17_Witness ==
    /\ wk = "killed"
    /\ wk_next = "err" /\ Len(errPipe) = PipeCap
    /\ dl_pc = "done"
    /\ status = "signal"
    /\ dl_ret = DlErr(<<"Download failed">>)

\* C19: while the command reads the worker's standard output, the command
\* or the worker can take a step: they are never both blocked, the worker on
\* the full standard-error pipe and the command on the empty standard-output
\* pipe.
C19_NoStderrPipeDeadlock ==
    (dl_pc = "stream" /\ wk = "running") =>
        \/ ENABLED StreamByte
        \/ ENABLED StreamEof
        \/ ENABLED WorkerStep

====
